---------------------------- MODULE Spec2Model ----------------------------
(***************************************************************************)
(* Model of mdbook-confluence: the recursive synchronisation of a book's   *)
(* chapter tree with a Confluence page tree (src/src/renderer.rs), the     *)
(* CDATA / character-downgrade content encoding, and the server version    *)
(* gate (src/src/client.rs).                                               *)
(***************************************************************************)
EXTENDS Integers, Sequences, FiniteSets, TLC

(***************************************************************************)
(* Bounds of the model.                                                    *)
(***************************************************************************)
MaxChapters == 3
MaxRemote == 2
MaxRuns == 2
MaxFailures == 2

(***************************************************************************)
(* Option<T> is a sequence of length 0 (None) or 1 (Some).                 *)
(***************************************************************************)
None == <<>>
Some(x) == <<x>>
IsSome(o) == o # <<>>
Unwrap(o) == o[1]

(***************************************************************************)
(* Configuration (ConfluenceConfig).                                       *)
(***************************************************************************)
root_page == 0
title_prefix == "p:"
RootSpace == "SP"

Names == {"A", "B"}

\* The book items the local tree is drawn from: BookItem::Chapter with a
\* name, or BookItem::Separator.  parent = 0 is the book's top level.
ItemRec == [name : Names, parent : 0..(MaxChapters - 1), kind : {"Chapter"}]
             \cup [name : {""}, parent : 0..(MaxChapters - 1), kind : {"Separator"}]

Books ==
  UNION { { b \in [1..n -> ItemRec] :
              \A i \in 1..n :
                 /\ b[i].parent < i
                 /\ b[i].parent # 0 => b[b[i].parent].kind = "Chapter" }
          : n \in 1..MaxChapters }

\* The titles a remote page can have before the first run: the effective
\* title of a chapter named "A", and a title no chapter has.
RemoteTitles == {title_prefix \o "A", "Old"}

VARIABLES
  book,              \* the local tree (ctx.book), fixed during a behaviour
  pages,             \* the remote service: page id -> page
  nextId,            \* the remote service's next fresh page id
  run,               \* number of the current run of the program
  rpc,               \* position of ConfluenceRenderer::render
  gpc,               \* position of each render_group call (0 = top level)
  parent_page,       \* render_group's parent_page argument
  children,          \* render_group's local `children` Vec
  ppc,               \* position of each render_page task
  existing_page_id,  \* render_page's existing_page_id argument
  existing_page,     \* the Page get_existing_page returned
  new_page,          \* the Page the content store returned
  events,            \* create_page_content's `events` Vec
  last_image,        \* create_page_content's `last_image`
  nfail,             \* failures injected so far
  fetched,           \* history: the list get_children returned to each group
  removes,           \* history: ids remove_page was issued for, per group
  hist,              \* history: summary of the finished runs
  trace,             \* history: the calls each render_page got an answer to
  result,            \* what each render_page returned (Result<String, Error>)
  log,               \* the info!/error! lines each render_group wrote for its renders
  external,          \* history: what other users of the service did
  server_info,       \* (majorVersion, minorVersion) the service reports
  spc,               \* position of ConfluenceRenderer::new
  server_version,    \* InternalRenderer.server_version
  body,              \* the markdown handed to to_cdata
  cdata              \* what to_cdata returned

vars == <<book, pages, nextId, run, rpc, gpc, parent_page, children, ppc,
          existing_page_id, existing_page, new_page, events, last_image,
          nfail, fetched, removes, hist, trace, result, log, external,
          server_info, spc, server_version, body, cdata>>

syncVars == <<book, pages, nextId, run, rpc, gpc, parent_page, children, ppc,
              existing_page_id, existing_page, new_page, events, last_image,
              nfail, fetched, removes, hist, trace, result, log, external>>

contentVars == <<server_info, spc, server_version, body, cdata>>

N == Len(book)
Groups == 0..N
Items == 1..N

IsChapter(i) == book[i].kind = "Chapter"
Chapters == {i \in Items : IsChapter(i)}

chapter_title(c) == title_prefix \o book[c].name


Done == {"ok", "err"}

RECURSIVE SortedSeq(_)
SortedSeq(S) ==
  IF S = {} THEN <<>>
  ELSE LET m == CHOOSE x \in S : \A y \in S : x <= y
       IN  <<m>> \o SortedSeq(S \ {m})

\* chapter.sub_items (ctx.book.sections for g = 0), in document order.
SubItems(g) == SortedSeq({i \in Items : book[i].parent = g})
SubChapters(g) == {i \in Chapters : book[i].parent = g}

(***************************************************************************)
(* Chapter content: the event stream new_cmark_parser yields.  The markup  *)
(* of a chapter is fixed by its name: "A" holds an image with a relative   *)
(* target followed by an image with an absolute (scheme) target, "B" holds *)
(* text only, "N" holds an image whose description holds another image     *)
(* (![x ![y](p.a)](a.p)), both with relative targets.  A target is a       *)
(* sequence of characters.                                                 *)
(***************************************************************************)
LocalTarget == <<"a", ".", "p">>
SchemeTarget == <<"h", ":", "a">>
InnerTarget == <<"p", ".", "a">>

Content(name) ==
  IF name = "A"
  THEN << [type |-> "start_image", url |-> LocalTarget],
          [type |-> "end_image",   url |-> LocalTarget],
          [type |-> "start_image", url |-> SchemeTarget],
          [type |-> "end_image",   url |-> SchemeTarget] >>
  ELSE IF name = "N"
  THEN << [type |-> "start_image", url |-> LocalTarget],
          [type |-> "start_image", url |-> InnerTarget],
          [type |-> "end_image",   url |-> InnerTarget],
          [type |-> "end_image",   url |-> LocalTarget] >>
  ELSE << [type |-> "text", url |-> <<>>] >>

LowerAlpha == {"a", "h", "p"}
SchemeRest == LowerAlpha \cup {"+", ".", "-"}

\* SCHEME_LINK.is_match: ^[a-z][a-z0-9+.-]*:
RECURSIVE SchemeTail(_, _)
SchemeTail(url, i) ==
  IF i > Len(url) THEN FALSE
  ELSE IF url[i] = ":" THEN TRUE
  ELSE IF url[i] \in SchemeRest THEN SchemeTail(url, i + 1)
  ELSE FALSE

SCHEME_LINK(url) == Len(url) >= 1 /\ url[1] \in LowerAlpha /\ SchemeTail(url, 2)

\* The url the service reports for a file attached to page page_id.
AttachmentUrl(page_id, target) == <<"r", ":">> \o target

(***************************************************************************)
(* The remote service.                                                     *)
(***************************************************************************)
PageIds == DOMAIN pages

Summary(id) == [id |-> id, title |-> pages[id].title, space |-> pages[id].space]

\* Session::get_children: the summaries of the pages under page_id.
get_children(page_id) ==
  LET ids == SortedSeq({i \in PageIds : pages[i].parent = page_id})
  IN  [k \in 1..Len(ids) |-> Summary(ids[k])]

\* Session::store_page: whether the service accepts the payload.
StoreAccepted(upd) ==
  IF IsSome(upd.id)
  THEN /\ Unwrap(upd.id) \in PageIds
       /\ IsSome(upd.version)
       /\ pages[Unwrap(upd.id)].version = Unwrap(upd.version)
  ELSE Unwrap(upd.parent_id) \in PageIds

\* Session::store_page: the Page the service answers with.
StoredPage(upd) ==
  [ id      |-> IF IsSome(upd.id) THEN Unwrap(upd.id) ELSE nextId,
    space   |-> upd.space,
    title   |-> upd.title,
    content |-> upd.content,
    version |-> IF IsSome(upd.id) THEN Unwrap(upd.version) + 1 ELSE 1,
    parent  |-> Unwrap(upd.parent_id) ]

PagesAfterStore(upd) ==
  LET p == StoredPage(upd)
  IN  IF IsSome(upd.id) THEN [pages EXCEPT ![p.id] = p] ELSE pages @@ (p.id :> p)

NextIdAfterStore(upd) == IF IsSome(upd.id) THEN nextId ELSE nextId + 1

PagesAfterRemove(id) == [i \in PageIds \ {id} |-> pages[i]]

\* impl From<Page> / From<PageSummary> for ParentPage
ParentPageFrom(page) == [id |-> page.id, space |-> page.space]


(***************************************************************************)
(* render_group: matching the local items against the fetched children.    *)
(***************************************************************************)
\* Mutant: the search runs forward and takes the lowest index.
FindFirst(ch, t) ==
  LET hits == {i \in 1..Len(ch) : ch[i].title = t}
  IN  IF hits = {} THEN 0 ELSE CHOOSE i \in hits : \A j \in hits : i <= j

\* for i in (0..children.len()).rev(): the highest index whose title is t,
\* 0 when there is none.
FindLast(ch, t) ==
  LET hits == {i \in 1..Len(ch) : ch[i].title = t}
  IN  IF hits = {} THEN 0 ELSE CHOOSE i \in hits : \A j \in hits : j <= i

\* Mutant: the matched child is read (children[i].id) but stays in the list.
RemoveAtKeeping(s, i) == s

\* Vec::remove(i)
RemoveAt(s, i) == [k \in 1..(Len(s) - 1) |-> IF k < i THEN s[k] ELSE s[k + 1]]

\* The for loop over items: the trimmed children and each chapter's
\* existing_page_id.
\* Mutant: the comparison uses the chapter's name without the prefix.
MatchTitleByName(c) == book[c].name

\* The title a child is compared with: self.config.chapter_title(&chapter).
MatchTitle(c) == chapter_title(c)

RECURSIVE MatchItems(_, _, _)
MatchItems(items, ch, ids) ==
  IF items = <<>> THEN [children |-> ch, ids |-> ids]
  ELSE LET c == Head(items)
           i == FindLast(ch, MatchTitle(c))
       IN  IF ~IsChapter(c) THEN MatchItems(Tail(items), ch, ids)
           ELSE IF i = 0
           THEN MatchItems(Tail(items), ch, [ids EXCEPT ![c] = None])
           ELSE MatchItems(Tail(items), RemoveAt(ch, i),
                           [ids EXCEPT ![c] = Some(ch[i].id)])

(***************************************************************************)
(* create_page_content: the loop over the chapter's events.  Every input   *)
(* event pushes one output event, so the loop stands at input event        *)
(* Len(events) + 1.                                                        *)
(***************************************************************************)
\* Runs the loop up to the next await (an upload) or to its end.
RECURSIVE Advance(_, _, _)
Advance(inp, evs, last) ==
  LET i == Len(evs) + 1
  IN  IF i > Len(inp) THEN [events |-> evs, last_image |-> last, pending |-> FALSE]
      ELSE LET e == inp[i]
           IN  IF e.type = "start_image" /\ last = None
               THEN IF SCHEME_LINK(e.url)
                    THEN Advance(inp, Append(evs, e), None)
                    ELSE [events |-> evs, last_image |-> last, pending |-> TRUE]
               ELSE IF e.type = "end_image" /\ last # None
               THEN Advance(inp, Append(evs, [type |-> "end_image", url |-> Unwrap(last).url]), None)
               ELSE Advance(inp, Append(evs, e), last)

\* The match on upload_image's result for the image event the loop stands at.
AfterUpload(inp, evs, new_url) ==
  LET e == inp[Len(evs) + 1]
  IN  IF IsSome(new_url)
      THEN LET tag == [type |-> "start_image", url |-> Unwrap(new_url)]
           IN  Advance(inp, Append(evs, tag), Some(tag))
      ELSE Advance(inp, Append(evs, e), None)

\* to_page_content(buf) of the serialised events.
to_page_content(evs) == [stub |-> FALSE, events |-> evs]
EmptyContent == [stub |-> TRUE, events |-> <<>>]

\* Mutant: the stub is created with the chapter's name, without the prefix.
NewPagePayloadByName(c, parent) ==
  [ id |-> None, space |-> parent.space, title |-> book[c].name,
    content |-> EmptyContent, version |-> None, parent_id |-> Some(parent.id) ]

\* get_existing_page's UpdatePage for a chapter without a remote page.
NewPagePayload(c, parent) ==
  [ id |-> None, space |-> parent.space, title |-> chapter_title(c),
    content |-> EmptyContent, version |-> None, parent_id |-> Some(parent.id) ]

\* Mutant: the page is stored under the root page.
ContentPayloadUnderRoot(c, page, parent, evs) ==
  [ id |-> Some(page.id), space |-> parent.space, title |-> chapter_title(c),
    content |-> to_page_content(evs), version |-> Some(page.version),
    parent_id |-> Some(root_page) ]

\* create_page_content's UpdatePage.
ContentPayload(c, page, parent, evs) ==
  [ id |-> Some(page.id), space |-> parent.space, title |-> chapter_title(c),
    content |-> to_page_content(evs), version |-> Some(page.version),
    parent_id |-> Some(parent.id) ]

(***************************************************************************)
(* Completion of futures.  A render_page that is awaiting its render_group *)
(* returns with it; a render_group whose join_all has every result goes on *)
(* to the orphans, and returns Ok at once when there is none.  Items are   *)
(* numbered parents first, so one descending pass settles everything.      *)
(***************************************************************************)
\* Mutant: the first failed render ends the join (try_join_all).
JoinReadyOnError(i, pp) ==
  \/ \A c \in SubChapters(i) : pp[c] \in Done
  \/ \E c \in SubChapters(i) : pp[c] = "err"

\* Mutant: the join ends with the first render that returns (select_all).
JoinReadyAny(i, pp) ==
  \/ SubChapters(i) = {}
  \/ \E c \in SubChapters(i) : pp[c] \in Done

\* Mutant: a render counts as finished once its own page is stored, while
\* its sub_items are still being rendered.
JoinReadyOwnPages(i, pp) ==
  \A c \in SubChapters(i) : pp[c] \in Done \cup {"render_group"}

\* future::join_all(child_futures) has every result.
JoinReady(i, pp) == \A c \in SubChapters(i) : pp[c] \in Done

\* Mutant: a failed render is returned with `?`.
AfterJoinPropagating(i, pp, ch) ==
  IF \E c \in SubChapters(i) : pp[c] = "err" THEN "err"
  ELSE IF ch # <<>> THEN "remove_page" ELSE "ok"

\* Mutant: the remaining children are left alone.
AfterJoinKeeping(i, pp, ch) == "ok"

\* After the results are logged: the first orphan's remove_page, or Ok(()).
AfterJoin(i, pp, ch) == IF ch # <<>> THEN "remove_page" ELSE "ok"

\* Mutant: render_page returns Ok(success) whatever its render_group
\* returned.
AfterGroupIgnoring(r) == "ok"

\* self.render_group(chapter.sub_items, ..).await?; Ok(success)
AfterGroup(r) == r

RECURSIVE Settle(_, _, _, _)
Settle(i, gp, pp, ch) ==
  LET gp1 == IF gp[i] = "join_all" /\ JoinReady(i, pp)
             THEN [gp EXCEPT ![i] = AfterJoin(i, pp, ch[i])]
             ELSE gp
      pp1 == IF i > 0 /\ pp[i] = "render_group" /\ gp1[i] \in Done
             THEN [pp EXCEPT ![i] = AfterGroup(gp1[i])]
             ELSE pp
  IN  IF i = 0 THEN [gpc |-> gp1, ppc |-> pp1] ELSE Settle(i - 1, gp1, pp1, ch)

\* render() returns what the top-level render_group returned.
RenderResult(gp) == IF gp[0] \in Done THEN gp[0] ELSE "render_group"


(***************************************************************************)
(* The server version gate.                                                *)
(***************************************************************************)
MaxMajor == 8
MaxMinor == 4

\* Version::parse(&format!("{}.{}.0", major, minor)): a semantic version's
\* numbers are unsigned, so a negative number (formatted with '-') is a
\* parse error.
ParseVersion(major, minor) ==
  IF major < 0 \/ minor < 0 THEN None
  ELSE Some([major |-> major, minor |-> minor, patch |-> 0])

\* Mutant: a strict comparison.
VersionGT(v, w) ==
  IF v.major # w.major THEN v.major > w.major
  ELSE IF v.minor # w.minor THEN v.minor > w.minor
  ELSE v.patch > w.patch

\* semver's ordering of versions without pre-release: self >= other.
VersionGE(v, w) ==
  IF v.major # w.major THEN v.major > w.major
  ELSE IF v.minor # w.minor THEN v.minor > w.minor
  ELSE v.patch >= w.patch

\* Version::parse("7.3.0")
EmojiVersion == [major |-> 7, minor |-> 3, patch |-> 0]

supports_emoji == VersionGE(Unwrap(server_version), EmojiVersion)

(***************************************************************************)
(* Strings are sequences of characters.  The characters of the model, with *)
(* their UTF-8 length and whether they extend a grapheme cluster:          *)
(*   "]" ">" "<" "!" "[" "C" "D" "A" "T"   1 byte                          *)
(*   "^"   U+0301  combining acute accent  2 bytes, extends                *)
(*   "~"   U+20D7  combining right arrow   3 bytes, extends                *)
(*   "?"   U+2E2E  reversed question mark  3 bytes (the placeholder)       *)
(*   "*"   U+1F600 grinning face           4 bytes                         *)
(***************************************************************************)
MaxLen == 4

BodyChars == {"]", ">", "^", "~", "*"}

Utf8Len(ch) ==
  IF ch = "*" THEN 4
  ELSE IF ch \in {"?", "~"} THEN 3
  ELSE IF ch = "^" THEN 2
  ELSE 1

IsExtend(ch) == ch \in {"^", "~"}

Placeholder == <<"?">>
Terminator == <<"]", "]", ">">>
CdataOpen == <<"<", "!", "[", "C", "D", "A", "T", "A", "[">>
EscapedTerminator == <<"]", "]", "]", "]", ">">> \o CdataOpen \o <<">">>

RECURSIVE Flatten(_)
Flatten(ss) == IF ss = <<>> THEN <<>> ELSE Head(ss) \o Flatten(Tail(ss))

\* str::len of a piece of text: its length in bytes.
RECURSIVE ByteLen(_)
ByteLen(s) == IF s = <<>> THEN 0 ELSE Utf8Len(Head(s)) + ByteLen(Tail(s))

\* UnicodeSegmentation::graphemes(s, true): a cluster never ends before an
\* extending character; everywhere else there is a boundary.
RECURSIVE GraphemesFrom(_, _, _)
GraphemesFrom(s, i, acc) ==
  IF i > Len(s) THEN acc
  ELSE IF IsExtend(s[i]) /\ acc # <<>>
  THEN GraphemesFrom(s, i + 1, [acc EXCEPT ![Len(acc)] = Append(@, s[i])])
  ELSE GraphemesFrom(s, i + 1, Append(acc, <<s[i]>>))

graphemes(s) == GraphemesFrom(s, 1, <<>>)

\* Mutant: only clusters of more than 4 bytes are replaced.
DowngradeClusterOver4(g) == IF ByteLen(g) > 4 THEN Placeholder ELSE g

\* The closure of flat_map: a cluster of 4 bytes or more becomes the placeholder.
DowngradeCluster(g) == IF ByteLen(g) >= 4 THEN Placeholder ELSE g

Downgrade(s) ==
  LET gs == graphemes(s)
  IN  Flatten([k \in 1..Len(gs) |-> DowngradeCluster(gs[k])])

StartsWithAt(s, i, pat) ==
  /\ i + Len(pat) - 1 <= Len(s)
  /\ \A k \in 1..Len(pat) : s[i + k - 1] = pat[k]

\* str::split(pat): the pieces between the non-overlapping matches of pat,
\* found from the left.
RECURSIVE SplitFrom(_, _, _, _, _)
SplitFrom(s, pat, i, cur, acc) ==
  IF i > Len(s) THEN Append(acc, cur)
  ELSE IF StartsWithAt(s, i, pat)
  THEN SplitFrom(s, pat, i + Len(pat), <<>>, Append(acc, cur))
  ELSE SplitFrom(s, pat, i + 1, Append(cur, s[i]), acc)

split(s, pat) == SplitFrom(s, pat, 1, <<>>, <<>>)

\* [&str]::join(sep)
RECURSIVE join(_, _)
join(ss, sep) ==
  IF Len(ss) = 1 THEN ss[1] ELSE ss[1] \o sep \o join(Tail(ss), sep)

\* The first statement of to_cdata: the text that is escaped.
DowngradedFor(emoji, s) == IF ~emoji THEN Downgrade(s) ELSE s

\* Mutant: the section is closed and reopened around the terminator, which
\* is dropped.
EscapeDropping(s) == join(split(s, Terminator), Terminator \o CdataOpen)

\* The escaping of to_cdata.
Escape(s) == join(split(s, Terminator), EscapedTerminator)

to_cdata_with(emoji, s) == CdataOpen \o Escape(DowngradedFor(emoji, s)) \o Terminator

to_cdata(s) == to_cdata_with(supports_emoji, s)

Bodies == UNION {[1..n -> BodyChars] : n \in 0..MaxLen}

ServerInfos == [major : (-1)..MaxMajor, minor : (-1)..MaxMinor]

(***************************************************************************)
(* ConfluenceRenderer::new and a call of to_cdata.                         *)
(***************************************************************************)
\* login and get_server_version succeed and the version parses.
New ==
  /\ spc = "new"
  /\ IsSome(ParseVersion(server_info.major, server_info.minor))
  /\ server_version' = ParseVersion(server_info.major, server_info.minor)
  /\ spc' = "ready"
  /\ UNCHANGED <<server_info, body, cdata>>
  /\ UNCHANGED syncVars

\* "Failed to parse Confluence Version": new returns the error.
NewFails ==
  /\ spc = "new"
  /\ ParseVersion(server_info.major, server_info.minor) = None
  /\ spc' = "err"
  /\ UNCHANGED <<server_info, server_version, body, cdata>>
  /\ UNCHANGED syncVars

ToCdata ==
  /\ spc = "ready"
  /\ cdata = None
  /\ cdata' = Some(to_cdata(body))
  /\ UNCHANGED <<server_info, spc, server_version, body>>
  /\ UNCHANGED syncVars

(***************************************************************************)
(* Initial state: a book, the root page and up to MaxRemote pages under    *)
(* it, and the program about to run ConfluenceRenderer::render.            *)
(***************************************************************************)
RootPage ==
  [ id |-> root_page, space |-> RootSpace, title |-> "root",
    content |-> EmptyContent, version |-> 1, parent |-> -1 ]

InitialChild(i, t) ==
  [ id |-> i, space |-> RootSpace, title |-> t,
    content |-> EmptyContent, version |-> 1, parent |-> root_page ]

Idle(n) ==
  /\ rpc = "get_page_by_id"
  /\ gpc = [g \in 0..n |-> "idle"]
  /\ parent_page = [g \in 0..n |-> None]
  /\ children = [g \in 0..n |-> <<>>]
  /\ fetched = [g \in 0..n |-> None]
  /\ removes = [g \in 0..n |-> <<>>]
  /\ ppc = [c \in 1..n |-> "idle"]
  /\ existing_page_id = [c \in 1..n |-> None]
  /\ existing_page = [c \in 1..n |-> None]
  /\ new_page = [c \in 1..n |-> None]
  /\ events = [c \in 1..n |-> <<>>]
  /\ last_image = [c \in 1..n |-> None]
  /\ trace = [c \in 1..n |-> <<>>]
  /\ result = [c \in 1..n |-> None]
  /\ log = [g \in 0..n |-> <<>>]

\* The session of the synchronisation runs: logged in, version 7.3.0.
SessionReady ==
  /\ server_info = [major |-> 7, minor |-> 3]
  /\ spc = "ready"
  /\ server_version = ParseVersion(7, 3)
  /\ body = <<>>
  /\ cdata = None

Init ==
  /\ SessionReady
  /\ book \in Books
  /\ \E k \in 0..MaxRemote : \E ts \in [1..k -> RemoteTitles] :
        /\ pages = (root_page :> RootPage) @@ [i \in 1..k |-> InitialChild(i, ts[i])]
        /\ nextId = k + 1
  /\ run = 1
  /\ nfail = 0
  /\ hist = <<>>
  /\ external = <<>>
  /\ Idle(Len(book))

CanFail == nfail < MaxFailures

\* Result<T, Error>.  An Error is named after the call it came from.
Ok(v) == [ok |-> TRUE, value |-> v]
Err(e) == [ok |-> FALSE, value |-> e]

\* Mutant: the line always says the page was created.
successCreated(c) ==
  [ word |-> "Created", title |-> Unwrap(new_page[c]).title ]

\* render_page's `success`: the word, and the title of the stored page.
success(c) ==
  [ word |-> IF IsSome(existing_page_id[c]) THEN "Updated" ELSE "Created",
    title |-> Unwrap(new_page[c]).title ]

\* What a render_page that ends in this step returns: Ok(success), or the
\* error e of the call that failed in this step, passed on by `?`.
Returned(c, pc, e) == IF pc = "ok" THEN Ok(success(c)) ELSE Err(e)

\* The chapters among a level's items, in document order.
ChaptersOf(g) == SelectSeq(SubItems(g), IsChapter)

\* for result in join_all(..): info! for an Ok, error! for an Err.
LogLine(c, r) ==
  [ level |-> IF r.ok THEN "info" ELSE "error", chapter |-> c, line |-> r.value ]

RECURSIVE JoinLines(_, _)
JoinLines(cs, res) ==
  IF cs = <<>> THEN <<>>
  ELSE IF res[Head(cs)] = None THEN JoinLines(Tail(cs), res)
  ELSE <<LogLine(Head(cs), Unwrap(res[Head(cs)]))>> \o JoinLines(Tail(cs), res)

PastJoin == {"remove_page", "ok"}

\* The positions after a step, with every future that can complete
\* completed: what the render_pages that ended returned, and the lines of
\* the render_groups whose join_all ended.  e is the error of the call that
\* failed in this step.
Settled(gp, pp, ch, e) ==
  LET st == Settle(N, gp, pp, ch)
  IN  /\ gpc' = st.gpc
      /\ ppc' = st.ppc
      /\ rpc' = RenderResult(gpc')
      /\ result' = [c \in Items |->
                      IF ppc[c] \notin Done /\ ppc'[c] \in Done
                      THEN Some(Returned(c, ppc'[c], e)) ELSE result[c]]
      /\ log' = [g \in Groups |->
                   IF gpc[g] \notin PastJoin /\ gpc'[g] \in PastJoin
                   THEN log[g] \o JoinLines(ChaptersOf(g), result') ELSE log[g]]

(***************************************************************************)
(* ConfluenceRenderer::render                                              *)
(***************************************************************************)
Render ==
  /\ rpc = "get_page_by_id"
  /\ root_page \in PageIds
  /\ rpc' = "render_group"
  /\ gpc' = [gpc EXCEPT ![0] = "get_children"]
  /\ parent_page' = [parent_page EXCEPT ![0] = Some(ParentPageFrom(pages[root_page]))]
  /\ UNCHANGED contentVars
  /\ UNCHANGED <<book, pages, nextId, run, children, ppc, existing_page_id,
                 existing_page, new_page, events, last_image, nfail, fetched,
                 removes, hist, trace, result, log, external>>

RenderFails ==
  /\ rpc = "get_page_by_id"
  /\ CanFail \/ root_page \notin PageIds
  /\ rpc' = "err"
  /\ nfail' = nfail + 1
  /\ UNCHANGED contentVars
  /\ UNCHANGED <<book, pages, nextId, run, gpc, parent_page, children, ppc,
                 existing_page_id, existing_page, new_page, events, last_image,
                 fetched, removes, hist, trace, result, log, external>>

(***************************************************************************)
(* render_group                                                            *)
(***************************************************************************)
\* get_children answers: match every item, start every render_page.
GetChildren(g) ==
  /\ gpc[g] = "get_children"
  /\ Unwrap(parent_page[g]).id \in PageIds
  /\ LET list == get_children(Unwrap(parent_page[g]).id)
         m == MatchItems(SubItems(g), list, existing_page_id)
         ch == [children EXCEPT ![g] = m.children]
     IN  /\ fetched' = [fetched EXCEPT ![g] = Some(list)]
         /\ children' = ch
         /\ existing_page_id' = m.ids
         /\ Settled([gpc EXCEPT ![g] = "join_all"],
                    [c \in Items |-> IF c \in SubChapters(g)
                                     THEN "get_existing_page" ELSE ppc[c]],
                    ch, "none")
  /\ UNCHANGED contentVars
  /\ UNCHANGED <<book, pages, nextId, run, parent_page, existing_page, new_page,
                 events, last_image, nfail, removes, hist, trace, external>>

\* get_children fails: render_group returns the error.
GetChildrenFails(g) ==
  /\ gpc[g] = "get_children"
  /\ CanFail \/ Unwrap(parent_page[g]).id \notin PageIds
  /\ nfail' = nfail + 1
  /\ Settled([gpc EXCEPT ![g] = "err"], ppc, children, "get_children")
  /\ UNCHANGED contentVars
  /\ UNCHANGED <<book, pages, nextId, run, parent_page, children,
                 existing_page_id, existing_page, new_page, events, last_image,
                 fetched, removes, hist, trace, external>>

\* Mutant: the loop deletes what is under the parent now: searching from
\* the end as the matching does, the page listed there that no chapter was
\* matched to and that it has not yet tried to remove.
deleted_child_refreshed(g) ==
  LET now == get_children(Unwrap(parent_page[g]).id)
      kept == {Unwrap(existing_page_id[c]) :
                 c \in {d \in SubChapters(g) : existing_page_id[d] # None}}
      left == {k \in 1..Len(now) :
                 /\ now[k].id \notin kept
                 /\ \A j \in 1..Len(removes[g]) : removes[g][j] # now[k].id}
  IN  IF left = {} THEN Head(children[g])
      ELSE now[CHOOSE k \in left : \A j \in left : j <= k]

\* for deleted_child in children: the child the loop stands at.
deleted_child(g) == Head(children[g])

\* remove_page for the first remaining child answers, with success or not.
RemoveDone(g) ==
  LET rest == Tail(children[g])
      ch == [children EXCEPT ![g] = rest]
  IN  /\ removes' = [removes EXCEPT ![g] = Append(@, deleted_child(g).id)]
      /\ children' = ch
      /\ Settled([gpc EXCEPT ![g] = IF rest = <<>> THEN "ok" ELSE "remove_page"],
                 ppc, ch, "none")
      /\ UNCHANGED contentVars
      /\ UNCHANGED <<book, nextId, run, parent_page, existing_page_id,
                     existing_page, new_page, events, last_image, fetched, hist,
                     trace, external>>

RemovePage(g) ==
  /\ gpc[g] = "remove_page"
  /\ deleted_child(g).id \in PageIds
  /\ pages' = PagesAfterRemove(deleted_child(g).id)
  /\ nfail' = nfail
  /\ RemoveDone(g)

\* Mutant: the loop leaves with the first error of remove_page, as a `?`
\* on the call would.
RemovePageFailsAborting(g) ==
  /\ gpc[g] = "remove_page"
  /\ CanFail \/ deleted_child(g).id \notin PageIds
  /\ pages' = pages
  /\ nfail' = nfail + 1
  /\ removes' = [removes EXCEPT ![g] = Append(@, deleted_child(g).id)]
  /\ children' = [children EXCEPT ![g] = <<>>]
  /\ Settled([gpc EXCEPT ![g] = "err"], ppc, children', "remove_page")
  /\ UNCHANGED contentVars
  /\ UNCHANGED <<book, nextId, run, parent_page, existing_page_id,
                 existing_page, new_page, events, last_image, fetched, hist,
                 trace, external>>

RemovePageFails(g) ==
  /\ gpc[g] = "remove_page"
  /\ CanFail \/ deleted_child(g).id \notin PageIds
  /\ pages' = pages
  /\ nfail' = nfail + 1
  /\ RemoveDone(g)


(***************************************************************************)
(* render_page                                                             *)
(***************************************************************************)
ParentOf(c) == Unwrap(parent_page[book[c].parent])

\* A call of render_page got its answer: the call, the page id it was about,
\* the event the transform stood at, the answer, the version it carried.
Answered(c, call, id, at, res, version) ==
  trace' = [trace EXCEPT ![c] =
              Append(@, [call |-> call, id |-> id, at |-> at, result |-> res,
                         version |-> version])]

\* Mutant: after an error the render_page starts over with the stub.
PageFailsRestarting(c, e) ==
  /\ nfail' = nfail + 1
  /\ Settled(gpc, [ppc EXCEPT ![c] = "get_existing_page"], children, e)

\* render_page returns the error e: `?` on the stub, the transform or the store.
PageFails(c, e) ==
  /\ nfail' = nfail + 1
  /\ Settled(gpc, [ppc EXCEPT ![c] = "err"], children, e)

\* create_page_content went on from the events evs: it awaits an upload, or
\* it ended, serialised the events and render_page issued the content store.
Transformed(c, adv) ==
  /\ events' = [events EXCEPT ![c] = adv.events]
  /\ last_image' = [last_image EXCEPT ![c] = adv.last_image]
  /\ ppc' = [ppc EXCEPT ![c] = IF adv.pending THEN "add_file" ELSE "store_page"]

\* The same, when cmark fails to serialise the events.
TransformFails(c, adv) ==
  /\ ~adv.pending
  /\ CanFail
  /\ events' = [events EXCEPT ![c] = adv.events]
  /\ last_image' = [last_image EXCEPT ![c] = adv.last_image]
  /\ PageFails(c, "cmark")

\* get_existing_page: the payload of the call render_page is waiting for.
StubAccepted(c) ==
  IF IsSome(existing_page_id[c])
  THEN Unwrap(existing_page_id[c]) \in PageIds
  ELSE StoreAccepted(NewPagePayload(c, ParentOf(c)))

StubPage(c) ==
  IF IsSome(existing_page_id[c])
  THEN pages[Unwrap(existing_page_id[c])]
  ELSE StoredPage(NewPagePayload(c, ParentOf(c)))

\* The stub is created (store_page) or fetched (get_page_by_id).
StubEffect(c) ==
  /\ StubAccepted(c)
  /\ existing_page' = [existing_page EXCEPT ![c] = Some(StubPage(c))]
  /\ Answered(c, "get_existing_page", existing_page_id[c], 0, "ok", None)
  /\ IF IsSome(existing_page_id[c])
     THEN pages' = pages /\ nextId' = nextId
     ELSE /\ pages' = PagesAfterStore(NewPagePayload(c, ParentOf(c)))
          /\ nextId' = NextIdAfterStore(NewPagePayload(c, ParentOf(c)))

GetExistingPage(c) ==
  /\ ppc[c] = "get_existing_page"
  /\ StubEffect(c)
  /\ Transformed(c, Advance(Content(book[c].name), <<>>, None))
  /\ UNCHANGED contentVars
  /\ UNCHANGED <<book, run, rpc, gpc, parent_page, children, existing_page_id,
                 new_page, nfail, fetched, removes, hist, result, log, external>>

GetExistingPageThenTransformFails(c) ==
  /\ ppc[c] = "get_existing_page"
  /\ StubEffect(c)
  /\ TransformFails(c, Advance(Content(book[c].name), <<>>, None))
  /\ UNCHANGED contentVars
  /\ UNCHANGED <<book, run, parent_page, children, existing_page_id,
                 new_page, fetched, removes, hist, external>>

GetExistingPageFails(c) ==
  /\ ppc[c] = "get_existing_page"
  /\ CanFail \/ ~StubAccepted(c)
  /\ Answered(c, "get_existing_page", existing_page_id[c], 0, "err", None)
  /\ PageFails(c, "get_existing_page")
  /\ UNCHANGED contentVars
  /\ UNCHANGED <<book, pages, nextId, run, parent_page, children,
                 existing_page_id, existing_page, new_page, events, last_image,
                 fetched, removes, hist, external>>

\* upload_image's call of add_file: the image the loop stands at, and the
\* page the file is attached to (existing_page.id).
ImageAt(c) == Len(events[c]) + 1
ImageTarget(c) == Content(book[c].name)[ImageAt(c)].url
\* Mutant: the file is attached to the parent page.
UploadParentId(c) == ParentOf(c).id

UploadPageId(c) == Unwrap(existing_page[c]).id

\* Session::add_file(page_id, attachment, path): the answers the call can
\* give: an attachment with a url, an attachment without one, or an error
\* (the file cannot be read, the service refuses).
add_file(page_id, target) ==
  IF page_id \in PageIds
  THEN { Ok([url |-> Some(AttachmentUrl(page_id, target))]),
         Ok([url |-> None]),
         Err("add_file") }
  ELSE { Err("add_file") }

\* upload_image: what add_file answered, as the Option upload_image returns:
\* the attachment's url, or None for an attachment without url.
UploadResults(c) ==
  { a.value.url : a \in {b \in add_file(UploadPageId(c), ImageTarget(c)) : b.ok} }

AddFile(c) ==
  /\ ppc[c] = "add_file"
  /\ \E r \in UploadResults(c) :
        /\ Transformed(c, AfterUpload(Content(book[c].name), events[c], r))
        /\ Answered(c, "add_file", Some(UploadPageId(c)), ImageAt(c),
                    IF IsSome(r) THEN "url" ELSE "no_url", None)
  /\ UNCHANGED contentVars
  /\ UNCHANGED <<book, pages, nextId, run, rpc, gpc, parent_page, children,
                 existing_page_id, existing_page, new_page, nfail, fetched,
                 removes, hist, result, log, external>>

AddFileThenTransformFails(c) ==
  /\ ppc[c] = "add_file"
  /\ \E r \in UploadResults(c) :
        /\ TransformFails(c, AfterUpload(Content(book[c].name), events[c], r))
        /\ Answered(c, "add_file", Some(UploadPageId(c)), ImageAt(c),
                    IF IsSome(r) THEN "url" ELSE "no_url", None)
  /\ UNCHANGED contentVars
  /\ UNCHANGED <<book, pages, nextId, run, parent_page, children,
                 existing_page_id, existing_page, new_page, fetched, removes,
                 hist, external>>

\* Mutant: add_file's error is returned with `?`.
AddFileErrorPropagated(c) ==
  /\ ppc[c] = "add_file"
  /\ CanFail \/ UploadPageId(c) \notin PageIds
  /\ events' = events
  /\ last_image' = last_image
  /\ Answered(c, "add_file", Some(UploadPageId(c)), ImageAt(c), "err", None)
  /\ PageFails(c, "add_file")
  /\ UNCHANGED contentVars
  /\ UNCHANGED <<book, pages, nextId, run, parent_page, children,
                 existing_page_id, existing_page, new_page, fetched, removes,
                 hist, external>>

\* add_file fails: upload_image logs the error and returns None.
AddFileFails(c) ==
  /\ ppc[c] = "add_file"
  /\ CanFail \/ UploadPageId(c) \notin PageIds
  /\ nfail' = nfail + 1
  /\ Transformed(c, AfterUpload(Content(book[c].name), events[c], None))
  /\ Answered(c, "add_file", Some(UploadPageId(c)), ImageAt(c), "err", None)
  /\ UNCHANGED contentVars
  /\ UNCHANGED <<book, pages, nextId, run, rpc, gpc, parent_page, children,
                 existing_page_id, existing_page, new_page, fetched, removes,
                 hist, result, log, external>>

\* The content store answers: render_page goes on to the chapter's sub_items.
StorePage(c) ==
  LET upd == ContentPayload(c, Unwrap(existing_page[c]), ParentOf(c), events[c])
  IN  /\ ppc[c] = "store_page"
      /\ StoreAccepted(upd)
      /\ pages' = PagesAfterStore(upd)
      /\ nextId' = NextIdAfterStore(upd)
      /\ new_page' = [new_page EXCEPT ![c] = Some(StoredPage(upd))]
      /\ parent_page' = [parent_page EXCEPT ![c] = Some(ParentPageFrom(StoredPage(upd)))]
      /\ gpc' = [gpc EXCEPT ![c] = "get_children"]
      /\ ppc' = [ppc EXCEPT ![c] = "render_group"]
      /\ Answered(c, "store_page", upd.id, 0, "ok", upd.version)
      /\ UNCHANGED contentVars
      /\ UNCHANGED <<book, run, rpc, children, existing_page_id, existing_page,
                     events, last_image, nfail, fetched, removes, hist, result,
                     log, external>>

\* Mutant: the store's error is dropped and render_page goes on to the
\* sub_items under the stub.
StoreErrorIgnored(c) ==
  /\ nfail' = nfail + 1
  /\ parent_page' = [parent_page EXCEPT ![c] = Some(ParentPageFrom(Unwrap(existing_page[c])))]
  /\ gpc' = [gpc EXCEPT ![c] = "get_children"]
  /\ ppc' = [ppc EXCEPT ![c] = "render_group"]
  /\ rpc' = rpc
  /\ result' = result
  /\ log' = log

\* Mutant: after a rejected store the page is fetched and stored again.
StoreErrorRetried(c) ==
  /\ nfail' = nfail + 1
  /\ parent_page' = parent_page
  /\ gpc' = gpc
  /\ ppc' = [ppc EXCEPT ![c] = "get_existing_page"]
  /\ rpc' = rpc
  /\ result' = result
  /\ log' = log

\* `?` on store_page's error.
StoreError(c) ==
  /\ PageFails(c, "store_page")
  /\ parent_page' = parent_page

StorePageFails(c) ==
  LET upd == ContentPayload(c, Unwrap(existing_page[c]), ParentOf(c), events[c])
  IN  /\ ppc[c] = "store_page"
      /\ CanFail \/ ~StoreAccepted(upd)
      /\ StoreError(c)
      /\ Answered(c, "store_page", upd.id, 0, "err", upd.version)
      /\ UNCHANGED contentVars
      /\ UNCHANGED <<book, pages, nextId, run, children,
                     existing_page_id, existing_page, new_page, events,
                     last_image, fetched, removes, hist, external>>

(***************************************************************************)
(* The program is run again on the same book.                              *)
(***************************************************************************)
\* What a finished run leaves behind for the claims about the next run: its
\* result, each chapter's result and the id of the page it stored.
\* The stub a chapter without a remote page left behind: get_existing_page
\* created it and render_page returned before its content was stored.
LeftStub(c) ==
  IF existing_page_id[c] = None /\ existing_page[c] # None /\ new_page[c] = None
  THEN Some(Unwrap(existing_page[c]).id) ELSE None

RunSummary ==
  [ rpc |-> rpc, ppc |-> ppc,
    page |-> [c \in Items |-> IF new_page[c] = None THEN None
                              ELSE Some(Unwrap(new_page[c]).id)],
    stub |-> [c \in Items |-> IF ppc[c] = "err" THEN LeftStub(c) ELSE None],
    nextId |-> nextId, nfail |-> nfail ]

NextRun ==
  /\ rpc \in Done
  /\ run < MaxRuns
  /\ run' = run + 1
  /\ hist' = Append(hist, RunSummary)
  /\ rpc' = "get_page_by_id"
  /\ gpc' = [g \in Groups |-> "idle"]
  /\ parent_page' = [g \in Groups |-> None]
  /\ children' = [g \in Groups |-> <<>>]
  /\ fetched' = [g \in Groups |-> None]
  /\ removes' = [g \in Groups |-> <<>>]
  /\ ppc' = [c \in Items |-> "idle"]
  /\ existing_page_id' = [c \in Items |-> None]
  /\ existing_page' = [c \in Items |-> None]
  /\ new_page' = [c \in Items |-> None]
  /\ events' = [c \in Items |-> <<>>]
  /\ last_image' = [c \in Items |-> None]
  /\ trace' = [c \in Items |-> <<>>]
  /\ result' = [c \in Items |-> None]
  /\ log' = [g \in Groups |-> <<>>]
  /\ UNCHANGED contentVars
  /\ UNCHANGED <<book, pages, nextId, nfail, external>>

Next ==
  \/ Render
  \/ RenderFails
  \/ \E g \in Groups : GetChildren(g)
  \/ \E g \in Groups : GetChildrenFails(g)
  \/ \E g \in Groups : RemovePage(g)
  \/ \E g \in Groups : RemovePageFails(g)
  \/ \E c \in Items : GetExistingPage(c)
  \/ \E c \in Items : GetExistingPageThenTransformFails(c)
  \/ \E c \in Items : GetExistingPageFails(c)
  \/ \E c \in Items : AddFile(c)
  \/ \E c \in Items : AddFileThenTransformFails(c)
  \/ \E c \in Items : AddFileFails(c)
  \/ \E c \in Items : StorePage(c)
  \/ \E c \in Items : StorePageFails(c)

Spec == Init /\ [][Next]_vars

(***************************************************************************)
(* A run in which the transform or the store fails for up to               *)
(* MaxAgainFailures chapters, followed by a run in which every call        *)
(* succeeds, on the same book: a book of chapters, with at most            *)
(* MaxAgainRemote pages under the root page.                               *)
(***************************************************************************)
MaxAgainRemote == 1
MaxAgainFailures == 1

InitAgain ==
  /\ Init
  /\ \A i \in 1..Len(book) : IsChapter(i)
  /\ nextId <= MaxAgainRemote + 1

\* In the first run a chapter's transform or store fails.
ContentFails ==
  /\ run = 1
  /\ nfail < MaxAgainFailures
  /\ \/ \E c \in Items : GetExistingPageThenTransformFails(c)
     \/ \E c \in Items : AddFileThenTransformFails(c)
     \/ \E c \in Items : StorePageFails(c)

NextAgain ==
  \/ Render
  \/ \E g \in Groups : GetChildren(g)
  \/ \E g \in Groups : RemovePage(g)
  \/ \E c \in Items : GetExistingPage(c)
  \/ \E c \in Items : AddFile(c)
  \/ \E c \in Items : StorePage(c)
  \/ ContentFails
  \/ NextRun

SpecAgain == InitAgain /\ [][NextAgain]_vars

(***************************************************************************)
(* A run in which every remote call is answered in the end, with success   *)
(* or with an error: whenever a call is pending, some pending call is      *)
(* answered.  A book of at most MaxLiveChapters items.                     *)
(***************************************************************************)
MaxLiveChapters == 2

InitLive == Init /\ Len(book) <= MaxLiveChapters

SpecLive == InitLive /\ [][Next]_vars /\ WF_vars(Next)

(***************************************************************************)
(* The content encoding on its own: a session is set up against a server   *)
(* that reports some version, then to_cdata is applied to some body.       *)
(***************************************************************************)
InitContent ==
  /\ server_info \in ServerInfos
  /\ spc = "new"
  /\ server_version = None
  /\ body \in Bodies
  /\ cdata = None
  /\ book = <<>>
  /\ pages = (root_page :> RootPage)
  /\ nextId = 1
  /\ run = 1
  /\ nfail = 0
  /\ hist = <<>>
  /\ external = <<>>
  /\ Idle(0)

NextContent ==
  \/ New
  \/ NewFails
  \/ ToCdata

SpecContent == InitContent /\ [][NextContent]_vars

\* Runs in which every call succeeds, repeated on the same book.
NextRerun ==
  \/ Render
  \/ \E g \in Groups : GetChildren(g)
  \/ \E g \in Groups : RemovePage(g)
  \/ \E c \in Items : GetExistingPage(c)
  \/ \E c \in Items : AddFile(c)
  \/ \E c \in Items : StorePage(c)
  \/ NextRun

SpecRerun == Init /\ [][NextRerun]_vars

(***************************************************************************)
(* The content transform on its own: a book of one or two chapters, among  *)
(* them one with nested images, is synchronised once.                      *)
(***************************************************************************)
MaxTransformChapters == 2
TransformNames == Names \cup {"N"}

TransformBooks ==
  UNION { { b \in [1..n -> [name : TransformNames, parent : 0..(n - 1), kind : {"Chapter"}]] :
              \A i \in 1..n : b[i].parent < i }
          : n \in 1..MaxTransformChapters }

InitTransform ==
  /\ SessionReady
  /\ book \in TransformBooks
  /\ \E k \in 0..1 :
        /\ pages = (root_page :> RootPage) @@ [i \in 1..k |-> InitialChild(i, "Old")]
        /\ nextId = k + 1
  /\ run = 1
  /\ nfail = 0
  /\ hist = <<>>
  /\ external = <<>>
  /\ Idle(Len(book))

SpecTransform == InitTransform /\ [][Next]_vars

(***************************************************************************)
(* Other users of the service.  While the program renders, another process *)
(* creates a page under some page, or edits a page (which advances its     *)
(* version counter).                                                       *)
(***************************************************************************)
MaxExternal == 1

ExternalPayload(parent, t) ==
  [ id |-> None, space |-> pages[parent].space, title |-> t,
    content |-> EmptyContent, version |-> None, parent_id |-> Some(parent) ]

ExternalCreate ==
  /\ rpc = "render_group"
  /\ Len(external) < MaxExternal
  /\ \E parent \in PageIds : \E t \in RemoteTitles :
        /\ pages' = PagesAfterStore(ExternalPayload(parent, t))
        /\ nextId' = NextIdAfterStore(ExternalPayload(parent, t))
        /\ external' = Append(external, [op |-> "create", id |-> nextId, parent |-> parent])
  /\ UNCHANGED contentVars
  /\ UNCHANGED <<book, run, rpc, gpc, parent_page, children, ppc,
                 existing_page_id, existing_page, new_page, events, last_image,
                 nfail, fetched, removes, hist, trace, result, log>>

ExternalEdit ==
  /\ rpc = "render_group"
  /\ Len(external) < MaxExternal
  /\ \E id \in PageIds \ {root_page} :
        /\ pages' = [pages EXCEPT ![id].version = @ + 1]
        /\ external' = Append(external, [op |-> "edit", id |-> id, parent |-> pages[id].parent])
  /\ UNCHANGED contentVars
  /\ UNCHANGED <<book, nextId, run, rpc, gpc, parent_page, children, ppc,
                 existing_page_id, existing_page, new_page, events, last_image,
                 nfail, fetched, removes, hist, trace, result, log>>

\* The service refuses the content store (the page's version counter is not
\* the one the store carries).
StorePageRejected(c) ==
  /\ ppc[c] = "store_page"
  /\ ~StoreAccepted(ContentPayload(c, Unwrap(existing_page[c]), ParentOf(c), events[c]))
  /\ StorePageFails(c)

\* A run in which the program's calls fail only where the service refuses
\* them, next to another user of the service.
NextExternal ==
  \/ Render
  \/ \E g \in Groups : GetChildren(g)
  \/ \E g \in Groups : RemovePage(g)
  \/ \E c \in Items : GetExistingPage(c)
  \/ \E c \in Items : AddFile(c)
  \/ \E c \in Items : StorePage(c)
  \/ \E c \in Items : StorePageRejected(c)
  \/ ExternalCreate
  \/ ExternalEdit

\* The books of these runs have at most MaxExternalChapters items.
MaxExternalChapters == 2

InitExternal == Init /\ Len(book) <= MaxExternalChapters

SpecExternal == InitExternal /\ [][NextExternal]_vars


(***************************************************************************)
(* Sanity of the model: the service would accept every call that is        *)
(* pending, so a run without injected failures never stops half way.       *)
(***************************************************************************)
EveryCallCanSucceed ==
  /\ rpc = "get_page_by_id" => root_page \in PageIds
  /\ \A g \in Groups :
        /\ gpc[g] = "get_children" => Unwrap(parent_page[g]).id \in PageIds
        /\ gpc[g] = "remove_page" => Head(children[g]).id \in PageIds
  /\ \A c \in Items :
        /\ ppc[c] = "get_existing_page" => StubAccepted(c)
        /\ ppc[c] = "add_file" => Unwrap(existing_page[c]).id \in PageIds
        /\ ppc[c] = "store_page" =>
             StoreAccepted(ContentPayload(c, Unwrap(existing_page[c]), ParentOf(c), events[c]))

(***************************************************************************)
(* Claims about the synchronisation (Spec, SpecRerun).                     *)
(***************************************************************************)
CountIn(seq, x) == Cardinality({k \in 1..Len(seq) : seq[k] = x})
IdsOf(list) == {list[k].id : k \in 1..Len(list)}
StoredId(c) == Unwrap(new_page[c]).id
ParentPageId(c) == IF book[c].parent = 0 THEN root_page ELSE StoredId(book[c].parent)

\* C1: after a complete run without any failure on a root page that had no
\* children, the pages under the root are exactly one page per chapter, each
\* created in this run with the chapter's title, under the root page for a
\* top-level chapter and under the page of the chapter's parent otherwise.
C1_OnePagePerChapter ==
  (rpc = "ok" /\ nfail = 0 /\ fetched[0] = Some(<<>>)) =>
    /\ \A c \in Chapters :
          /\ new_page[c] # None
          /\ existing_page_id[c] = None
          /\ StoredId(c) \in PageIds
          /\ pages[StoredId(c)].title = chapter_title(c)
          /\ pages[StoredId(c)].parent = ParentPageId(c)
    /\ \A c, d \in Chapters : c # d => StoredId(c) # StoredId(d)
    /\ PageIds \ {root_page} = {StoredId(c) : c \in Chapters}

\* A complete clean run of a chapter with a sub-chapter and a sibling.
C1_Witness ==
  /\ rpc = "ok" /\ nfail = 0 /\ fetched[0] = Some(<<>>)
  /\ N = 3 /\ Chapters = {1, 2, 3}
  /\ book[2].parent = 1 /\ book[3].parent = 0
  /\ Cardinality(PageIds) = 4

\* No two chapters under one parent share a name.
UniqueSiblingTitles ==
  \A c, d \in Chapters :
     (c # d /\ book[c].parent = book[d].parent) => chapter_title(c) # chapter_title(d)

\* The ids of the pages the chapters stored in the first run.
FirstRunPages == {Unwrap(hist[1].page[c]) : c \in Chapters}

\* The second of two clean runs creates nothing, deletes nothing, and every
\* chapter fetches a page of the first run, stores it with the version just
\* fetched, and gets the same id back with the version advanced by one.
SecondRunUpdates ==
  /\ nextId = hist[1].nextId
  /\ \A g \in Groups : removes[g] = <<>>
  /\ \A c \in Chapters :
        /\ ppc[c] # "idle" =>
             /\ existing_page_id[c] # None
             /\ Unwrap(existing_page_id[c]) \in FirstRunPages
        /\ existing_page[c] # None =>
             /\ Unwrap(existing_page[c]).id = Unwrap(existing_page_id[c])
             /\ ppc[c] = "store_page" =>
                  pages[Unwrap(existing_page[c]).id].version = Unwrap(existing_page[c]).version
        /\ new_page[c] # None =>
             /\ StoredId(c) = Unwrap(existing_page_id[c])
             /\ Unwrap(new_page[c]).version = Unwrap(existing_page[c]).version + 1
             /\ pages[StoredId(c)].version = Unwrap(new_page[c]).version
  /\ rpc = "ok" => \A c \in Chapters : new_page[c] # None

\* C2 as stated, for every book: the second of two clean runs only updates
\* pages of the first run.
C2_Original == (run = 2 /\ hist[1].rpc = "ok") => SecondRunUpdates

\* C2 amended: when no two sibling chapters share a title, the second of two
\* clean runs only updates, and every chapter is matched to its own page of
\* the first run.
C2_SecondRunUpdates ==
  (run = 2 /\ hist[1].rpc = "ok" /\ UniqueSiblingTitles) =>
     /\ SecondRunUpdates
     /\ \A c \in Chapters : ppc[c] # "idle" => existing_page_id[c] = hist[1].page[c]

\* The second run of a three-chapter book is complete.
C2_Witness ==
  /\ run = 2 /\ hist[1].rpc = "ok" /\ UniqueSiblingTitles /\ rpc = "ok"
  /\ Chapters = {1, 2, 3}
  /\ book[2].parent = 1 /\ book[3].parent = 0
  /\ \A c \in Chapters : pages[StoredId(c)].version = 3

\* C3: in a render_group call remove_page is never issued twice for an id
\* nor for a child matched to a chapter, and when the call has returned it
\* was issued exactly once for every fetched child whose title is no local
\* chapter's effective title.
C3_OrphansDeletedOnce ==
  \A g \in Groups :
     fetched[g] # None =>
       LET list == Unwrap(fetched[g])
           titles == {chapter_title(c) : c \in SubChapters(g)}
           matched == {Unwrap(existing_page_id[c]) :
                          c \in {d \in SubChapters(g) : existing_page_id[d] # None}}
       IN  \A k \in 1..Len(list) :
              /\ CountIn(removes[g], list[k].id) <= 1
              /\ list[k].id \in matched => CountIn(removes[g], list[k].id) = 0
              /\ (gpc[g] = "ok" /\ list[k].title \notin titles) =>
                    CountIn(removes[g], list[k].id) = 1

\* Two sibling chapters in either order, one matched, one created, and the
\* orphan "Old" deleted.
C3_Witness ==
  /\ gpc[0] = "ok"
  /\ Len(Unwrap(fetched[0])) = 2
  /\ Cardinality(SubChapters(0)) = 2
  /\ UniqueSiblingTitles
  /\ book[1].name = "B"
  /\ \E c \in SubChapters(0) : existing_page_id[c] # None
  /\ Len(removes[0]) = 1
  /\ removes[0][1] \notin PageIds

\* C4: when two fetched children share a title and exactly one chapter of
\* the level has it, the chapter is matched to the one with the higher
\* index; the other stays in the list until remove_page is issued for it,
\* which has happened when the call returns.
C4_TieBreak ==
  \A g \in Groups :
     fetched[g] # None =>
       LET list == Unwrap(fetched[g])
       IN  \A i, j \in 1..Len(list) : \A c \in SubChapters(g) :
              ( /\ i < j
                /\ list[i].title = list[j].title
                /\ \A k \in 1..Len(list) : list[k].title = list[j].title => k <= j
                /\ chapter_title(c) = list[j].title
                /\ \A d \in SubChapters(g) : chapter_title(d) = chapter_title(c) => d = c )
              => /\ existing_page_id[c] = Some(list[j].id)
                 /\ CountIn(removes[g], list[j].id) = 0
                 /\ list[i].id \in IdsOf(children[g]) \/ CountIn(removes[g], list[i].id) = 1
                 /\ gpc[g] = "ok" => CountIn(removes[g], list[i].id) = 1

\* Two remote children titled like the only chapter "A" of the level.
C4_Witness ==
  /\ gpc[0] = "ok"
  /\ Len(Unwrap(fetched[0])) = 2
  /\ Unwrap(fetched[0])[1].title = Unwrap(fetched[0])[2].title
  /\ \E c \in SubChapters(0) :
        /\ chapter_title(c) = Unwrap(fetched[0])[1].title
        /\ \A d \in SubChapters(0) : chapter_title(d) = chapter_title(c) => d = c
        /\ existing_page_id[c] = Some(Unwrap(fetched[0])[2].id)
  /\ removes[0] = <<Unwrap(fetched[0])[1].id>>

\* C5: whenever the synchronisation of a chapter's sub_items has started
\* (its render_group has issued a call, a sub-chapter's render_page exists),
\* the chapter's content store has returned a page, and that page is the
\* parent the sub_items are synchronised under.
C5_ParentBeforeChild ==
  \A c \in Chapters :
     /\ gpc[c] # "idle" =>
          /\ new_page[c] # None
          /\ Unwrap(new_page[c]).content.stub = FALSE
          /\ Unwrap(parent_page[c]).id = StoredId(c)
     /\ \A d \in SubChapters(c) : ppc[d] # "idle" =>
          /\ new_page[c] # None
          /\ fetched[c] # None

\* A sub-chapter's stub call is pending under its parent's stored page.
C5_Witness ==
  \E c \in Chapters : \E d \in SubChapters(c) :
     /\ ppc[d] = "get_existing_page"
     /\ new_page[c] # None
     /\ StoredId(c) \in PageIds
     /\ pages[StoredId(c)].content.stub = FALSE

\* The ids of the children left after matching, in list order.
RECURSIVE Without(_, _)
Without(list, ids) ==
  IF list = <<>> THEN <<>>
  ELSE IF Head(list).id \in ids THEN Without(Tail(list), ids)
  ELSE <<Head(list).id>> \o Without(Tail(list), ids)

Orphans(g) ==
  Without(Unwrap(fetched[g]),
          {Unwrap(existing_page_id[c]) : c \in {d \in SubChapters(g) : existing_page_id[d] # None}})

\* A chapter whose stub, transform or store failed.
PageFailed(c) == ppc[c] = "err" /\ new_page[c] = None

\* C6: when a chapter's stub, transform or store has failed, nothing of its
\* sub_items is ever started; its level is not aborted: every sibling task
\* stays started, and when the level's render_group has returned it
\* returned Ok, every sibling has run to its end and remove_page was issued
\* for every orphan of the level.
C6_FailureIsolation ==
  \A c \in Chapters :
     PageFailed(c) =>
       /\ gpc[c] = "idle"
       /\ fetched[c] = None
       /\ \A d \in SubChapters(c) : ppc[d] = "idle"
       /\ LET g == book[c].parent
          IN  /\ gpc[g] \in {"join_all", "remove_page", "ok"}
              /\ \A d \in SubChapters(g) : ppc[d] # "idle"
              /\ gpc[g] \in {"remove_page", "ok"} =>
                    \A d \in SubChapters(g) : ppc[d] \in Done
              /\ gpc[g] = "ok" => removes[g] = Orphans(g)

\* Chapter 1 has a sub-chapter and failed; its sibling was stored with its
\* own sub-level done, and the level's orphan was removed.
C6_Witness ==
  /\ N = 3 /\ Chapters = {1, 2, 3}
  /\ book[2].parent = 1 /\ book[3].parent = 0
  /\ PageFailed(1)
  /\ ppc[3] = "ok"
  /\ gpc[0] = "ok"
  /\ Len(removes[0]) = 1
  /\ removes[0][1] \notin PageIds

\* C7: a render_group that has returned returned an error exactly when its
\* get_children failed (it never got a list), whatever the renders and the
\* deletions of its level did; render returns the top level's result.
C7_ErrorOnlyFromFetch ==
  /\ \A g \in Groups :
        gpc[g] \in Done => (gpc[g] = "err" <=> fetched[g] = None)
  /\ (rpc \in Done /\ gpc[0] # "idle") => rpc = gpc[0]

\* The top level returned Ok although its only render and its only
\* deletion failed.
C7_Witness ==
  /\ gpc[0] = "ok"
  /\ SubChapters(0) # {}
  /\ \A c \in SubChapters(0) : ppc[c] = "err"
  /\ Len(removes[0]) >= 1
  /\ \A k \in 1..Len(removes[0]) : removes[0][k] \in PageIds
  /\ rpc = "ok"

(***************************************************************************)
(* Claims about the content encoding (SpecContent).                        *)
(***************************************************************************)
\* What an XML reader makes of a text that should be CDATA sections only:
\* each section opens with <![CDATA[ and runs to the first ]]> after it.
RECURSIVE ReadSections(_, _, _)
ReadSections(s, i, acc) ==
  IF i > Len(s) THEN [ok |-> TRUE, sections |-> acc]
  ELSE IF ~StartsWithAt(s, i, CdataOpen) THEN [ok |-> FALSE, sections |-> acc]
  ELSE LET from == i + Len(CdataOpen)
           ends == {j \in from..Len(s) : StartsWithAt(s, j, Terminator)}
       IN  IF ends = {} THEN [ok |-> FALSE, sections |-> acc]
           ELSE LET j == CHOOSE x \in ends : \A y \in ends : x <= y
                IN  ReadSections(s, j + Len(Terminator),
                                 Append(acc, SubSeq(s, from, j - 1)))

Sections(s) == ReadSections(s, 1, <<>>)
Occurrences(s, pat) == {j \in 1..Len(s) : StartsWithAt(s, j, pat)}

\* C8: the output of to_cdata reads as one or more well-formed CDATA
\* sections, every ]]> in it closes a section, and the sections' contents
\* concatenated are the text that was escaped (the body, downgraded when the
\* gate is off); with the gate on and with the gate off.
C8_CdataRoundTrip ==
  cdata # None =>
    LET out == Unwrap(cdata)
        r == Sections(out)
    IN  /\ r.ok
        /\ Len(r.sections) >= 1
        /\ Cardinality(Occurrences(out, Terminator)) = Len(r.sections)
        /\ Flatten(r.sections) = DowngradedFor(supports_emoji, body)

\* A body with a terminator that survives the downgrade, gate off.
C8_Witness ==
  /\ cdata # None
  /\ ~supports_emoji
  /\ Occurrences(body, Terminator) # {}
  /\ Len(Sections(Unwrap(cdata)).sections) = 2

C10_VersionGate ==
  /\ [](server_version # None =>
          /\ Unwrap(server_version) =
               [major |-> server_info.major, minor |-> server_info.minor, patch |-> 0]
          /\ supports_emoji <=>
               (server_info.major > 7 \/ (server_info.major = 7 /\ server_info.minor >= 3)))
  /\ [][server_version # None => server_version' = server_version]_vars

\* The gate was used by to_cdata at exactly 7.3.0.
C10_Witness ==
  /\ cdata # None
  /\ server_info = [major |-> 7, minor |-> 3]
  /\ supports_emoji

(***************************************************************************)
(* Claims about uploads, the call order and the report (Spec).             *)
(***************************************************************************)
\* The answered calls of a chapter's render_page that satisfy a test.
Calls(c, call) == {k \in 1..Len(trace[c]) : trace[c][k].call = call}
FailedUploads(c) ==
  {k \in Calls(c, "add_file") : trace[c][k].result \in {"err", "no_url"}}
StoreIssued(c) == ppc[c] = "store_page" \/ Calls(c, "store_page") # {}

TouchedIds(c) ==
  (IF IsSome(existing_page_id[c]) THEN {Unwrap(existing_page_id[c])} ELSE {})
    \cup (IF existing_page[c] # None THEN {Unwrap(existing_page[c]).id} ELSE {})
    \cup (IF new_page[c] # None THEN {Unwrap(new_page[c]).id} ELSE {})
    \cup {Unwrap(trace[c][k].id) : k \in {j \in 1..Len(trace[c]) : IsSome(trace[c][j].id)}}

\* C13: two render tasks of one render_group call never have a remote page
\* in common: the ids handed to them are pairwise distinct, an id created
\* for one is not the id handed to or created for another, and no call of
\* one names a page of the other.
C13_SiblingsOwnDistinctPages ==
  \A g \in Groups : \A c, d \in SubChapters(g) :
     c # d =>
       /\ (IsSome(existing_page_id[c]) /\ IsSome(existing_page_id[d])) =>
             existing_page_id[c] # existing_page_id[d]
       /\ TouchedIds(c) \cap TouchedIds(d) = {}

\* The fetched list holds the same title twice; two chapters with that title
\* were matched to the two pages (the first chapter to the later page), a
\* third sibling got a new page, and all three were stored.
C13_Witness ==
  /\ gpc[0] = "ok"
  /\ Len(Unwrap(fetched[0])) = 2
  /\ Unwrap(fetched[0])[1].title = Unwrap(fetched[0])[2].title
  /\ SubChapters(0) = {1, 2, 3}
  /\ existing_page_id[1] = Some(Unwrap(fetched[0])[2].id)
  /\ existing_page_id[2] = Some(Unwrap(fetched[0])[1].id)
  /\ existing_page_id[3] = None
  /\ \A c \in {1, 2, 3} : new_page[c] # None
  /\ removes[0] = <<>>

(***************************************************************************)
(* Claims about runs next to another user of the service (SpecExternal).   *)
(***************************************************************************)
SeqToSet(seq) == {seq[k] : k \in 1..Len(seq)}
MatchedIds(g) ==
  {Unwrap(existing_page_id[c]) : c \in {d \in SubChapters(g) : existing_page_id[d] # None}}

\* The pages that came to be under the parent of level g after its fetch:
\* created for a chapter of the level, or by another process.
AppearedAfterFetch(g) ==
  {id \in PageIds : /\ pages[id].parent = Unwrap(parent_page[g]).id
                    /\ id \notin IdsOf(Unwrap(fetched[g]))}

\* C14: remove_page is only ever issued for a child of the fetched list that
\* no chapter was matched to, and when the call has returned it was issued
\* for exactly those; a page that came under the parent after the fetch is
\* never removed and is still there.
C14_DeletesOnlyFetched ==
  \A g \in Groups :
     fetched[g] # None =>
       /\ SeqToSet(removes[g]) \subseteq IdsOf(Unwrap(fetched[g])) \ MatchedIds(g)
       /\ gpc[g] = "ok" =>
            SeqToSet(removes[g]) = IdsOf(Unwrap(fetched[g])) \ MatchedIds(g)
       /\ \A k \in 1..Len(external) :
            ( /\ external[k].op = "create"
              /\ external[k].parent = Unwrap(parent_page[g]).id
              /\ external[k].id \notin IdsOf(Unwrap(fetched[g])) )
               => /\ external[k].id \notin SeqToSet(removes[g])
                  /\ external[k].id \in PageIds
       /\ \A c \in SubChapters(g) :
            (existing_page_id[c] = None /\ existing_page[c] # None)
               => /\ Unwrap(existing_page[c]).id \notin SeqToSet(removes[g])
                  /\ Unwrap(existing_page[c]).id \in PageIds

\* The top level fetched one orphan and removed it; a page that another
\* process created under the root after the fetch, with a title no chapter
\* has, and the page created for a chapter are still there.
C14_Witness ==
  /\ gpc[0] = "ok"
  /\ Len(Unwrap(fetched[0])) = 1
  /\ Len(removes[0]) = 1
  /\ removes[0][1] \notin PageIds
  /\ Len(external) = 1
  /\ external[1].op = "create"
  /\ external[1].id \in AppearedAfterFetch(0)
  /\ pages[external[1].id].title = "Old"
  /\ \E c \in SubChapters(0) :
        /\ existing_page_id[c] = None
        /\ new_page[c] # None
        /\ Unwrap(new_page[c]).id \in AppearedAfterFetch(0)

\* The content store render_page c waits for carries the version it fetched
\* for a matched page, and the page's version is no longer that one.
Conflict(c) ==
  /\ ppc[c] = "store_page"
  /\ IsSome(existing_page_id[c])
  /\ Unwrap(existing_page[c]).id = Unwrap(existing_page_id[c])
  /\ Unwrap(existing_page[c]).id \in PageIds
  /\ pages[Unwrap(existing_page[c]).id].version # Unwrap(existing_page[c]).version

RejectedStore(c) == \E k \in Calls(c, "store_page") : trace[c][k].result = "err"

\* C15: a content store in conflict is never accepted: until it is answered
\* the page keeps its content, and the answer is an error.  A chapter's
\* content store is answered at most once in a run and is not issued again,
\* it carries the id and the version of the page render_page fetched, and
\* after a rejected store the render_page has returned the store's error and
\* nothing of the chapter's sub_items was started.
C15_NoRetryOnConflict ==
  /\ [][ \A c \in Chapters :
            Conflict(c) =>
              /\ ppc'[c] \in {"store_page", "err"}
              /\ new_page'[c] = None
              /\ pages'[Unwrap(existing_page[c]).id].content =
                   pages[Unwrap(existing_page[c]).id].content ]_vars
  /\ [](\A c \in Chapters :
           /\ Cardinality(Calls(c, "store_page")) <= 1
           /\ ppc[c] = "store_page" => Calls(c, "store_page") = {}
           /\ \A k \in Calls(c, "store_page") :
                 /\ trace[c][k].id = Some(Unwrap(existing_page[c]).id)
                 /\ trace[c][k].version = Some(Unwrap(existing_page[c]).version)
           /\ RejectedStore(c) =>
                 /\ ppc[c] = "err"
                 /\ result[c] = Some(Err("store_page"))
                 /\ new_page[c] = None
                 /\ gpc[c] = "idle"
                 /\ fetched[c] = None
                 /\ \A d \in SubChapters(c) : ppc[d] = "idle")

\* A matched chapter with a sub-chapter: its page was edited by another
\* process after render_page fetched it, the store was refused, the run went
\* on to its end and the sub-chapter was never started.
C15_Witness ==
  \E c \in Chapters : \E d \in SubChapters(c) :
     /\ IsSome(existing_page_id[c])
     /\ external = <<[op |-> "edit", id |-> Unwrap(existing_page_id[c]), parent |-> root_page]>>
     /\ existing_page[c] # None
     /\ pages[Unwrap(existing_page_id[c])].version = Unwrap(existing_page[c]).version + 1
     /\ RejectedStore(c)
     /\ nfail = 1
     /\ rpc = "ok"
     /\ ppc[d] = "idle"

(***************************************************************************)
(* Claims about the deletion pass and the phases of a level (Spec).        *)
(***************************************************************************)
IsPrefix(s, t) == Len(s) <= Len(t) /\ \A k \in 1..Len(s) : s[k] = t[k]

\* C16: at every moment of the deletion pass of a level, remove_page has
\* been issued for the first orphans of the level in list order, whether the
\* calls succeeded or not; while an orphan is left the next call is for it,
\* and a level that got its list returns only when remove_page was issued
\* for every orphan.
C16_DeletionPassGoesOn ==
  \A g \in Groups :
     fetched[g] # None =>
       /\ IsPrefix(removes[g], Orphans(g))
       /\ gpc[g] = "remove_page" =>
             /\ Len(removes[g]) < Len(Orphans(g))
             /\ Head(children[g]).id = Orphans(g)[Len(removes[g]) + 1]
             /\ Len(children[g]) = Len(Orphans(g)) - Len(removes[g])
       /\ gpc[g] \in Done => removes[g] = Orphans(g)

\* Two orphans at the top level: remove_page failed for the first, which is
\* still on the service, and was then issued for the second, which is gone.
C16_Witness ==
  /\ gpc[0] = "ok"
  /\ Len(Orphans(0)) = 2
  /\ removes[0] = Orphans(0)
  /\ removes[0][1] \in PageIds
  /\ removes[0][2] \notin PageIds
  /\ nfail = 1

\* The items at or below item d.
RECURSIVE Under(_, _)
Under(e, d) ==
  IF e = d THEN TRUE ELSE IF e = 0 THEN FALSE ELSE Under(book[e].parent, d)

Subtree(d) == {e \in Items : Under(e, d)}

\* Nothing at or below d is running: every render_page and render_group
\* there has returned or was never started.
Finished(d) ==
  /\ ppc[d] \in Done
  /\ \A e \in Subtree(d) :
        /\ ppc[e] \in Done \cup {"idle"}
        /\ gpc[e] \in Done \cup {"idle"}

\* C17: in one render_group call, (1) as soon as one render of the level is
\* started, every chapter of the level is started with the id the matching
\* of the whole item list against the fetched list gives it, and the level
\* holds the list trimmed by that whole matching; a render of the level
\* gets an answer to a remote call only while the level waits in join_all;
\* (2) a deletion is waited for or was issued only when every render of the
\* level has returned with everything below it, and the step that issues
\* one starts from such a state; (3) the child list of a level changes only
\* in a step of its own render_group: the answer of get_children or of
\* remove_page.
C17_PhasesOrdered ==
  /\ [](\A g \in Groups :
          /\ (\E c \in SubChapters(g) : ppc[c] # "idle") =>
                /\ fetched[g] # None
                /\ LET m == MatchItems(SubItems(g), Unwrap(fetched[g]), existing_page_id)
                   IN  /\ \A d \in SubChapters(g) :
                             ppc[d] # "idle" /\ existing_page_id[d] = m.ids[d]
                       /\ gpc[g] = "join_all" => children[g] = m.children
          /\ (gpc[g] = "remove_page" \/ removes[g] # <<>>) =>
                \A d \in SubChapters(g) : Finished(d))
  /\ [][ \A g \in Groups :
           /\ (\E c \in SubChapters(g) : trace'[c] # trace[c]) =>
                 gpc[g] = "join_all" /\ children'[g] = children[g]
           /\ removes'[g] # removes[g] =>
                 gpc[g] = "remove_page" /\ \A d \in SubChapters(g) : Finished(d)
           /\ children'[g] # children[g] =>
                 \/ gpc[g] = "get_children" /\ fetched[g] = None /\ fetched'[g] # None
                 \/ gpc[g] = "remove_page" /\ removes'[g] # removes[g] ]_vars

\* Two chapters at the top level, one of them matched and with a
\* sub-chapter: every render has returned, then the orphan of the level was
\* removed.
C17_Witness ==
  /\ Cardinality(SubChapters(0)) = 2
  /\ \E c \in SubChapters(0) : \E d \in SubChapters(c) :
        /\ existing_page_id[c] # None
        /\ ppc[c] = "ok" /\ ppc[d] = "ok" /\ gpc[c] = "ok"
  /\ \A c \in SubChapters(0) : Finished(c)
  /\ Len(removes[0]) = 1
  /\ removes[0][1] \notin PageIds
  /\ gpc[0] = "ok"

\* C18: for every chapter, (1) an upload is waited for or answered only
\* when get_existing_page has answered with the chapter's page, the first
\* call of the render; the page is the matched one, or a page created for
\* the chapter that still has its empty content when an upload is answered;
\* (2) every upload carried the id of that page, which has the chapter's
\* title, is no other chapter's page and is the page the content store
\* writes; (3) every upload is answered before the content store is issued:
\* the store is issued with the event loop at its end, and no upload is
\* answered after it.
C18_StubUploadsStore ==
  /\ [](\A c \in Chapters :
          /\ (ppc[c] = "add_file" \/ Calls(c, "add_file") # {}) =>
                /\ existing_page[c] # None
                /\ trace[c] # <<>>
                /\ trace[c][1].call = "get_existing_page"
                /\ trace[c][1].result = "ok"
                /\ IsSome(existing_page_id[c]) =>
                      Unwrap(existing_page[c]).id = Unwrap(existing_page_id[c])
                /\ Unwrap(existing_page[c]).title = chapter_title(c)
                /\ \A d \in Chapters \ {c} :
                      existing_page[d] # None =>
                         Unwrap(existing_page[d]).id # Unwrap(existing_page[c]).id
                /\ new_page[c] # None =>
                      Unwrap(new_page[c]).id = Unwrap(existing_page[c]).id
          /\ \A k \in Calls(c, "add_file") :
                /\ k > 1
                /\ trace[c][k].id = Some(Unwrap(existing_page[c]).id)
                /\ \A j \in Calls(c, "store_page") : k < j
          /\ ppc[c] = "add_file" => Calls(c, "store_page") = {}
          /\ (ppc[c] = "store_page" \/ Calls(c, "store_page") # {}) =>
                Len(events[c]) = Len(Content(book[c].name)))
  /\ [][ \A c \in Chapters :
           (ppc[c] = "add_file" /\ trace'[c] # trace[c]) =>
              /\ trace'[c][Len(trace'[c])].call = "add_file"
              /\ Len(trace'[c]) = Len(trace[c]) + 1
              /\ (existing_page_id[c] = None /\ UploadPageId(c) \in PageIds) =>
                    pages[UploadPageId(c)].content = EmptyContent ]_vars

\* A chapter without a remote page: its page was created, an upload to that
\* page answered with a url, then the content was stored.
C18_Witness ==
  \E c \in Chapters :
     /\ existing_page_id[c] = None
     /\ ppc[c] = "ok"
     /\ new_page[c] # None
     /\ \E k \in Calls(c, "add_file") :
           /\ trace[c][k].result = "url"
           /\ trace[c][k].id = Some(Unwrap(new_page[c]).id)
     /\ \E j \in Calls(c, "store_page") : trace[c][j].result = "ok"
     /\ pages[Unwrap(new_page[c]).id].content.stub = FALSE

(***************************************************************************)
(* A run in which the remote calls of one chapter's render may never be    *)
(* answered.  Every call succeeds when it is answered.  The chapter is the *)
(* first chapter of the first level with more than one chapter; its calls, *)
(* and the calls of everything below it, are answered or not, while every  *)
(* other call is answered in the end: the runtime polls every future of a  *)
(* join_all whose call has returned, and #[tokio::main] drives render to   *)
(* its end.                                                                *)
(***************************************************************************)
Hung(h) ==
  /\ h \in Chapters
  /\ \E c \in SubChapters(book[h].parent) : c # h
  /\ \A c \in SubChapters(book[h].parent) : h <= c
  /\ \A g \in 0..(book[h].parent - 1) : Cardinality(SubChapters(g)) <= 1

\* The items whose calls may never be answered.
InHung(i) == \E h \in Chapters : Hung(h) /\ Under(i, h)

\* The answer to a call of the run outside the hung render.
Answer ==
  \/ Render
  \/ \E g \in Groups : ~InHung(g) /\ (GetChildren(g) \/ RemovePage(g))
  \/ \E c \in Items :
        ~InHung(c) /\ (GetExistingPage(c) \/ AddFile(c) \/ StorePage(c))

NextHang ==
  \/ Render
  \/ \E g \in Groups : GetChildren(g)
  \/ \E g \in Groups : RemovePage(g)
  \/ \E c \in Items : GetExistingPage(c)
  \/ \E c \in Items : AddFile(c)
  \/ \E c \in Items : StorePage(c)

\* The books of chapters only in which some level has more than one
\* chapter, with at most MaxHangRemote pages under the root page.
MaxHangRemote == 1

InitHang ==
  /\ Init
  /\ \A i \in 1..Len(book) : IsChapter(i)
  /\ \E h \in 1..Len(book) : Hung(h)
  /\ nextId <= MaxHangRemote + 1

SpecHang == InitHang /\ [][NextHang]_vars /\ WF_vars(Answer)

\* The render of chapter h waits for the answer to a remote call of its own.
Calling(h) == ppc[h] \in {"get_existing_page", "add_file", "store_page"}

\* The levels from h's level up to the top level wait in join_all with no
\* deletion issued and no line logged, and render has not returned.
RECURSIVE Blocked(_)
Blocked(g) ==
  /\ gpc[g] = "join_all"
  /\ removes[g] = <<>>
  /\ log[g] = <<>>
  /\ IF g = 0 THEN rpc = "render_group"
     ELSE ppc[g] = "render_group" /\ Blocked(book[g].parent)

\* C19: every chapter started at the level of a chapter whose calls may
\* hang, other than that chapter, returns in the end with everything below
\* it having returned; and as long as a call of the hung chapter has not
\* been answered, the render_group of its level waits in join_all and has
\* issued no deletion, and so does every level above it.
C19_HangIsolation ==
  /\ \A c \in 2..MaxChapters :
        (/\ c \in Chapters
         /\ ~Hung(c)
         /\ \E h \in SubChapters(book[c].parent) : Hung(h)
         /\ ppc[c] # "idle")
           ~> (c \in Chapters /\ Finished(c))
  /\ [](\A h \in Chapters :
           (Hung(h) /\ Calling(h)) =>
              /\ Blocked(book[h].parent)
              /\ children[book[h].parent] =
                   MatchItems(SubItems(book[h].parent),
                              Unwrap(fetched[book[h].parent]),
                              existing_page_id).children)

\* The first call of chapter 1 is unanswered; its sibling, chapter 2, has
\* returned Ok with its sub-chapter 3, and the top level still waits in
\* join_all with an orphan to delete.
C19_Witness ==
  /\ N = 3 /\ Chapters = {1, 2, 3}
  /\ book[2].parent = 0 /\ book[3].parent = 2
  /\ Hung(1)
  /\ ppc[1] = "get_existing_page" /\ trace[1] = <<>>
  /\ ppc[2] = "ok" /\ ppc[3] = "ok" /\ Finished(2)
  /\ gpc[0] = "join_all"
  /\ children[0] # <<>>
  /\ removes[0] = <<>>
  /\ rpc = "render_group"

(***************************************************************************)
(* Claims about the report of a run (Spec).                                *)
(***************************************************************************)
\* The lines a level has logged for chapter c.
LinesOf(g, c) == {k \in 1..Len(log[g]) : log[g][k].chapter = c}

\* What the matching of a level gave chapter c: the id of a fetched child,
\* or None.
MatchedTo(c) ==
  MatchItems(SubItems(book[c].parent), Unwrap(fetched[book[c].parent]),
             existing_page_id).ids[c]

\* C20: a chapter never has more than one line, and only in the log of its
\* own level; when render has returned, every chapter whose render was
\* started has exactly one line and every other chapter has none; the line
\* is a success line exactly when the render returned Ok, and then it says
\* Updated exactly when the matching gave the chapter a fetched child and
\* Created exactly when it gave none, with the title of the stored page;
\* it is an error line exactly when the render returned an error.  render
\* returns Ok whenever a render_page was started, whatever it returned.
C20_OneLinePerChapter ==
  /\ \A c \in Chapters : \A g \in Groups :
        /\ Cardinality(LinesOf(g, c)) <= 1
        /\ g # book[c].parent => LinesOf(g, c) = {}
  /\ rpc \in Done =>
        \A c \in Chapters :
           LET lines == LinesOf(book[c].parent, c)
           IN  /\ ppc[c] = "idle" => lines = {}
               /\ ppc[c] # "idle" =>
                     /\ ppc[c] \in Done
                     /\ Cardinality(lines) = 1
                     /\ \A k \in lines :
                           LET l == log[book[c].parent][k]
                           IN  /\ l.level = "info" <=> ppc[c] = "ok"
                               /\ l.level = "error" <=> ppc[c] = "err"
                               /\ l.level = "info" =>
                                     /\ l.line.word \in {"Created", "Updated"}
                                     /\ l.line.word = "Updated" <=> MatchedTo(c) # None
                                     /\ l.line.word = "Created" <=> MatchedTo(c) = None
                                     /\ l.line.title = chapter_title(c)
  /\ (rpc \in Done /\ \E c \in Chapters : ppc[c] # "idle") => rpc = "ok"

\* A run that has returned Ok with an Updated line, a Created line and an
\* error line at the top level.
C20_Witness ==
  /\ rpc = "ok"
  /\ \E i, j, k \in 1..Len(log[0]) :
        /\ log[0][i].level = "info" /\ log[0][i].line.word = "Updated"
        /\ MatchedTo(log[0][i].chapter) # None
        /\ log[0][j].level = "info" /\ log[0][j].line.word = "Created"
        /\ MatchedTo(log[0][j].chapter) = None
        /\ log[0][k].level = "error"
        /\ ppc[log[0][k].chapter] = "err"

(***************************************************************************)
(* Claims about what a render_page returns (Spec).                         *)
(***************************************************************************)
\* The stub, the transform and the store of chapter c succeeded: the first
\* call answered Ok, the store answered Ok and its page is bound.
OwnPageStored(c) ==
  /\ new_page[c] # None
  /\ existing_page[c] # None
  /\ trace[c] # <<>>
  /\ trace[c][1].call = "get_existing_page" /\ trace[c][1].result = "ok"
  /\ \E k \in Calls(c, "store_page") : trace[c][k].result = "ok"

\* The chapters above chapter c, its parent first.
RECURSIVE Ancestors(_)
Ancestors(c) ==
  IF book[c].parent = 0 THEN {}
  ELSE {book[c].parent} \cup Ancestors(book[c].parent)

\* C21: (1) a render_page that returned Ok stored its own page and the
\* listing of that page's children succeeded; (2) when the listing of a
\* stored page's children failed, the render_page of that page returned the
\* listing's error although the page is stored; (3) a render_page that has
\* returned returned an error only when one of its own calls or that listing
\* failed: every chapter above a chapter that was started is still waiting
\* for its sub_items or has returned Ok, whatever the chapters below it
\* returned, and the render_group of a started chapter's level never
\* returns an error.
C21_ErrorStopsAtGroup ==
  \A c \in Chapters :
     /\ ppc[c] = "ok" =>
           /\ OwnPageStored(c)
           /\ gpc[c] = "ok"
           /\ fetched[c] # None
     /\ (gpc[c] = "err" /\ ppc[c] # "idle") =>
           /\ ppc[c] = "err"
           /\ result[c] = Some(Err("get_children"))
           /\ OwnPageStored(c)
           /\ fetched[c] = None
     /\ ppc[c] = "err" =>
           \/ ~OwnPageStored(c) /\ gpc[c] = "idle"
           \/ OwnPageStored(c) /\ gpc[c] = "err" /\ fetched[c] = None
     /\ ppc[c] # "idle" =>
           /\ gpc[book[c].parent] \in {"join_all", "remove_page", "ok"}
           /\ \A a \in Ancestors(c) :
                 /\ ppc[a] \in {"render_group", "ok"}
                 /\ OwnPageStored(a)
                 /\ ppc[a] = "ok" => result[a] = Some(Ok(success(a)))

\* A chain of three chapters: the listing of the children of chapter 2's
\* stored page failed, so chapter 2 returned an error and chapter 3 was
\* never started, while chapter 1 and render returned Ok.
C21_Witness ==
  /\ N = 3 /\ Chapters = {1, 2, 3}
  /\ book[2].parent = 1 /\ book[3].parent = 2
  /\ OwnPageStored(2)
  /\ Unwrap(new_page[2]).id \in PageIds
  /\ pages[Unwrap(new_page[2]).id].content.stub = FALSE
  /\ gpc[2] = "err"
  /\ ppc[2] = "err"
  /\ ppc[3] = "idle"
  /\ ppc[1] = "ok"
  /\ gpc[0] = "ok"
  /\ rpc = "ok"

(***************************************************************************)
(* Claims about a stub left by a failed render (SpecAgain).                *)
(***************************************************************************)
\* In the run that left it, the stub s of chapter c is on the service with
\* empty content, under the parent page and with the chapter's effective
\* title, and no remove_page was issued for it.
StubStays(c, s) ==
  /\ s \in PageIds
  /\ pages[s].content = EmptyContent
  /\ pages[s].title = chapter_title(c)
  /\ pages[s].parent = ParentOf(c).id
  /\ \A g \in Groups : s \notin SeqToSet(removes[g])

\* The stub s was matched to a chapter of its title and that chapter's
\* content was stored in it.
StubUpdated(s) ==
  /\ s \in PageIds
  /\ pages[s].content.stub = FALSE
  /\ \E d \in Chapters :
        /\ chapter_title(d) = pages[s].title
        /\ existing_page_id[d] = Some(s)
        /\ new_page[d] # None
        /\ Unwrap(new_page[d]).id = s

\* C22 as stated: a stub left by a failed render stays as it is for the rest
\* of the run, and when the next run has returned the stub was matched by
\* title and updated, no remove_page was issued for it and no page was
\* created for the chapter.
C22_Original ==
  \A c \in Chapters :
     /\ (ppc[c] = "err" /\ LeftStub(c) # None) => StubStays(c, Unwrap(LeftStub(c)))
     /\ (run = 2 /\ hist[1].stub[c] # None /\ rpc = "ok") =>
           /\ StubUpdated(Unwrap(hist[1].stub[c]))
           /\ \A g \in Groups : Unwrap(hist[1].stub[c]) \notin SeqToSet(removes[g])
           /\ existing_page_id[c] # None

\* C22 amended: a stub left by a failed render stays as it is for the rest
\* of the run; when no two sibling chapters share a title, the next run
\* never issues remove_page for the stub, matches the chapter to it as soon
\* as the chapter is started, fetches it instead of creating a page, stores
\* the chapter's content in it, and no other page under the same parent has
\* its title.
C22_StubKept ==
  \A c \in Chapters :
     /\ (ppc[c] = "err" /\ LeftStub(c) # None) => StubStays(c, Unwrap(LeftStub(c)))
     /\ (run = 2 /\ UniqueSiblingTitles /\ hist[1].stub[c] # None) =>
           LET s == Unwrap(hist[1].stub[c])
           IN  /\ s \in PageIds
               /\ pages[s].title = chapter_title(c)
               /\ \A g \in Groups : s \notin SeqToSet(removes[g])
               /\ \A i \in PageIds \ {s} :
                     pages[i].parent = pages[s].parent => pages[i].title # pages[s].title
               /\ ppc[c] # "idle" => existing_page_id[c] = Some(s)
               /\ existing_page[c] # None => Unwrap(existing_page[c]).id = s
               /\ new_page[c] # None =>
                     /\ Unwrap(new_page[c]).id = s
                     /\ pages[s].content.stub = FALSE
               /\ rpc = "ok" => ppc[c] = "ok" /\ StubUpdated(s)

\* The first run left a stub for a chapter whose store or transform failed;
\* the second run has returned, and the chapter was matched to the stub and
\* stored its content in it.
C22_Witness ==
  /\ run = 2 /\ rpc = "ok" /\ UniqueSiblingTitles
  /\ hist[1].nfail = 1
  /\ \E c \in Chapters :
        /\ hist[1].stub[c] # None
        /\ hist[1].ppc[c] = "err"
        /\ existing_page_id[c] = hist[1].stub[c]
        /\ ppc[c] = "ok"
        /\ Unwrap(new_page[c]).id = Unwrap(hist[1].stub[c])
        /\ pages[Unwrap(hist[1].stub[c])].content.stub = FALSE

(***************************************************************************)
(* Claims about termination and the number of calls (SpecLive).            *)
(***************************************************************************)
\* How far a render_group and a render_page have come.
GroupRank(pc) ==
  CASE pc = "idle" -> 0
    [] pc = "get_children" -> 1
    [] pc = "join_all" -> 2
    [] pc = "remove_page" -> 3
    [] OTHER -> 4

PageRank(pc) ==
  CASE pc = "idle" -> 0
    [] pc = "get_existing_page" -> 1
    [] pc = "add_file" -> 2
    [] pc = "store_page" -> 3
    [] pc = "render_group" -> 4
    [] OTHER -> 5

\* Nothing of the run is pending.
AtRest ==
  /\ rpc \in Done
  /\ \A g \in Groups : gpc[g] \in Done \cup {"idle"}
  /\ \A c \in Chapters : ppc[c] \in Done \cup {"idle"}

\* C23: when every remote call is answered in the end, render returns, with
\* the top-level render_group returned if it was started and nothing left
\* pending.  On the way a render_group and a render_page only go forward,
\* so each level lists its children at most once, and only for the root
\* page or the stored page of its chapter, no two levels listing the same
\* page; each chapter got at most one answer to its stub call and at most
\* one to its content store; and each level issued remove_page at most once
\* per fetched child and for fetched children only.
C23_Terminates ==
  /\ <>(AtRest /\ (gpc[0] # "idle" => gpc[0] \in Done))
  /\ [][ /\ \A g \in Groups :
               /\ GroupRank(gpc'[g]) >= GroupRank(gpc[g])
               /\ gpc[g] \in Done => gpc'[g] = gpc[g]
               /\ fetched[g] # None => fetched'[g] = fetched[g]
               /\ IsPrefix(removes[g], removes'[g])
         /\ \A c \in Chapters :
               /\ PageRank(ppc'[c]) >= PageRank(ppc[c])
               /\ ppc[c] \in Done => ppc'[c] = ppc[c]
               /\ IsPrefix(trace[c], trace'[c]) ]_vars
  /\ [](/\ \A c \in Chapters :
             /\ Cardinality(Calls(c, "get_existing_page")) <= 1
             /\ Cardinality(Calls(c, "store_page")) <= 1
             /\ gpc[c] # "idle" =>
                   /\ new_page[c] # None
                   /\ parent_page[c] = Some(ParentPageFrom(Unwrap(new_page[c])))
                   /\ \A g \in Groups \ {c} :
                         gpc[g] # "idle" =>
                            Unwrap(parent_page[g]).id # Unwrap(parent_page[c]).id
        /\ \A g \in Groups :
             /\ removes[g] # <<>> => fetched[g] # None
             /\ fetched[g] # None =>
                   /\ SeqToSet(removes[g]) \subseteq IdsOf(Unwrap(fetched[g]))
                   /\ \A id \in IdsOf(Unwrap(fetched[g])) : CountIn(removes[g], id) <= 1)

\* A run of two chapters, one under the other, with a remote child to
\* delete, has returned: every level listed its children, each chapter has
\* one stub answer and one store answer, and the orphan was removed.
C23_Witness ==
  /\ N = 2 /\ book[2].parent = 1
  /\ AtRest /\ rpc = "ok"
  /\ \A g \in Groups : fetched[g] # None /\ gpc[g] = "ok"
  /\ \A c \in Chapters :
        /\ Cardinality(Calls(c, "get_existing_page")) = 1
        /\ Cardinality(Calls(c, "store_page")) = 1
  /\ Len(removes[0]) = 1

(***************************************************************************)
(* Claims about the image rewriting (SpecTransform).                       *)
(***************************************************************************)
UploadsAt(c, k) == {j \in Calls(c, "add_file") : trace[c][j].at = k}

\* C12: for every image-start event the loop has handled: when its target
\* has a scheme, no upload was made for it and it was pushed as it was;
\* otherwise exactly one upload was made for it, and the pushed event has
\* the url the upload returned, or is the event as it was when the upload
\* returned none.
C12_ImageRewriting ==
  \A c \in Chapters : \A k \in 1..Len(events[c]) :
     LET e == Content(book[c].name)[k]
     IN  e.type = "start_image" =>
           IF SCHEME_LINK(e.url)
           THEN UploadsAt(c, k) = {} /\ events[c][k] = e
           ELSE /\ Cardinality(UploadsAt(c, k)) = 1
                /\ \A j \in UploadsAt(c, k) :
                      IF trace[c][j].result = "url"
                      THEN events[c][k] =
                             [type |-> "start_image",
                              url |-> AttachmentUrl(Unwrap(existing_page[c]).id, e.url)]
                      ELSE events[c][k] = e

=============================================================================
